---- MODULE Spec2Model ----
\* Model of client/src/pages/AllPerks.jsx: the AllPerks React component, its two
\* effects (initial load, debounced reload), its handlers, the browser timers it
\* schedules and the HTTP requests it has in flight.
EXTENDS FiniteSets, Integers, Sequences, TLC

VARIABLES
    phase,            \* "init" (state created, effects not yet run), "mounted", "unmounted"
    perks,            \* useState([])      line 6
    allMerchants,     \* useState([])      line 7
    uniqueMerchants,  \* useState([])      line 8
    searchQuery,      \* useState('')      line 9
    merchantFilter,   \* useState('')      line 10
    loading,          \* useState(true)    line 11
    error,            \* useState('')      line 12
    timers,           \* pending setTimeout timers of the browser
    delayDebounce,    \* timer id held by the cleanup of the last debounce effect run
    inflight,         \* api.get requests not yet settled, in order of issue
    last,             \* history: the step the program ran last, and the response (the
                      \*          perk list, or the error) it consumed
    lastChange,       \* history: "mount", "edit" or "reset", whichever came last
    effectRan,        \* history: that step ran the debounce effect
    elapsed,          \* history: ms since that step (saturating)
    debounced,        \* history: the fetches timers started since that step
    burst,            \* history: the last change came less than 500 ms after another
    autoFetches,      \* history: api.get calls so far while the user has done nothing;
                      \*          -1 from the first filter edit, Search Now or Reset on
    settled,          \* history: some request has settled while the view was mounted
    failedSince       \* history: a fetch has failed and the user has done nothing since

vars == <<phase, perks, allMerchants, uniqueMerchants, searchQuery, merchantFilter,
          loading, error, timers, delayDebounce, inflight, last, lastChange, effectRan,
          elapsed, debounced, burst, autoFetches, settled, failedSince>>

view == <<perks, allMerchants, uniqueMerchants, searchQuery, merchantFilter, loading, error>>
since == <<lastChange, effectRan, elapsed, debounced, burst>>

----------------------------------------------------------------------------
\* Bounds and program constants

DEBOUNCE_MS == 500
MaxLoadsInFlight == 1
TickMs == 250

ElapsedCap == DEBOUNCE_MS + TickMs

Min(a, b) == IF a <= b THEN a ELSE b

----------------------------------------------------------------------------
\* Strings are sequences of one-character strings; " " is the whitespace character.

EmptyStr == << >>
IsSpace(c) == c = " "

RECURSIVE TrimStart(_)
TrimStart(s) == IF s # << >> /\ IsSpace(Head(s)) THEN TrimStart(Tail(s)) ELSE s

RECURSIVE TrimEnd(_)
TrimEnd(s) ==
    IF s # << >> /\ IsSpace(s[Len(s)]) THEN TrimEnd(SubSeq(s, 1, Len(s) - 1)) ELSE s

\* String.prototype.trim
Trim(s) == TrimEnd(TrimStart(s))

\* Perks as the backend returns them; merchant is optional.
Perk(id, has, m, d) == [_id |-> id, hasMerchant |-> has, merchant |-> m, discountPercent |-> d]

P1 == Perk("1", TRUE, <<"X">>, 0)
P2 == Perk("2", TRUE, <<"Y">>, 20)
P3 == Perk("3", TRUE, <<"X">>, 20)
P4 == Perk("4", FALSE, EmptyStr, 0)
P5 == Perk("5", TRUE, EmptyStr, 5)
P6 == Perk("6", TRUE, <<" ">>, 0)
P7 == Perk("7", TRUE, <<" ", "Z">>, 0)

\* res.data.perks of a successful response
Responses == { << >>, <<P2>>, <<P1, P4, P3, P5, P6, P7>> }

\* err.response.data.message of a failed response, when there is one
ErrorResponses == {
    [hasMessage |-> FALSE, message |-> ""],
    [hasMessage |-> TRUE, message |-> ""],
    [hasMessage |-> TRUE, message |-> "Server error"] }

\* values the user can put in the search box
SearchInputs == { EmptyStr, <<" ">>, <<" ", "a", " ">> }

FallbackError == "Failed to load perks"

----------------------------------------------------------------------------
\* Pure functions of the component

Range(f) == { f[i] : i \in DOMAIN f }

\* .filter(merchant => merchant && merchant.trim())          line 26
Truthy(perk) == perk.hasMerchant /\ perk.merchant # EmptyStr /\ Trim(perk.merchant) # EmptyStr

\* [...new Set(merchants)]: first occurrences, in order       line 27
RECURSIVE Unique(_)
Unique(s) ==
    IF s = << >> THEN << >>
    ELSE LET front == Unique(SubSeq(s, 1, Len(s) - 1))
             x == s[Len(s)]
         IN IF x \in Range(front) THEN front ELSE Append(front, x)

\* Variant: every merchant field is kept, nothing filtered or deduplicated.
MerchantsOfUnfiltered(res) == [i \in 1..Len(res) |-> res[i].merchant]

\* res.data.perks.map(perk => perk.merchant).filter(...)      lines 24-27
MerchantsOf(res) ==
    LET kept == SelectSeq(res, Truthy)
    IN Unique([i \in 1..Len(kept) |-> kept[i].merchant])

NoParams == [k \in {} |-> EmptyStr]

\* Variant: the values are sent as typed, without trim().
ParamsUntrimmed(sq, mf) ==
    LET given == [search |-> sq, merchant |-> mf]
        keys == { k \in DOMAIN given : given[k] # EmptyStr }
    IN [k \in keys |-> given[k]]

\* params: { search: searchQuery.trim() || undefined,
\*           merchant: merchantFilter.trim() || undefined }   lines 59-62
\* (a key whose value is undefined is not sent)
Params(sq, mf) ==
    LET given == [search |-> Trim(sq), merchant |-> Trim(mf)]
        keys == { k \in DOMAIN given : given[k] # EmptyStr }
    IN [k \in keys |-> given[k]]

\* Variant: the server's message is never looked at.
ErrorMessageFallbackOnly(err) == FallbackError

\* err?.response?.data?.message || 'Failed to load perks'     lines 32, 69
ErrorMessage(err) ==
    IF err.hasMessage /\ err.message # "" THEN err.message ELSE FallbackError

\* Variant: the empty-state message does not look at the loading flag.
EmptyStateIgnoresLoading(ld, ps) == Len(ps) = 0

\* {!loading && perks.length === 0 && (... No perks found. ...)}   lines 193-200
EmptyState(ld, ps) == ~ld /\ Len(ps) = 0

\* Variant: the plural is used above one perk only.
CountTextPluralAboveOne(ps) ==
    [n |-> Len(ps), noun |-> <<"p", "e", "r", "k">> \o (IF Len(ps) > 1 THEN <<"s">> ELSE << >>)]

\* Showing {perks.length} perk{perks.length !== 1 ? 's' : ''}       lines 93-95
CountText(ps) ==
    [n |-> Len(ps), noun |-> <<"p", "e", "r", "k">> \o (IF Len(ps) # 1 THEN <<"s">> ELSE << >>)]

\* {perk.discountPercent > 0 && (... {perk.discountPercent}% OFF ...)}  lines 184-189
Badge(perk) == IF perk.discountPercent > 0 THEN <<perk.discountPercent, "% OFF">> ELSE << >>

\* one card of the grid                                        lines 172-190
Card(perk) == [key |-> perk._id, to |-> <<"/perks/", perk._id>>, badge |-> Badge(perk)]

\* perks.map(perk => <Link ...>)                               lines 171-191
Cards(ps) == [i \in 1..Len(ps) |-> Card(ps[i])]

\* What a function created during a render sees of the state.
Render(sq, mf, am) == [searchQuery |-> sq, merchantFilter |-> mf, allMerchants |-> am]

RemoveAt(s, i) == SubSeq(s, 1, i - 1) \o SubSeq(s, i + 1, Len(s))

\* history of a step: what ran, the response it consumed, whether it called api.get
Step(op, res) == [op |-> op, res |-> res, fetched |-> Len(inflight') > Len(inflight)]

----------------------------------------------------------------------------
\* Browser timers

\* Variant: the cleanup cancels nothing.
ClearTimeoutNothing(ts, id) == ts

\* clearTimeout(id)                                           line 48
ClearTimeout(ts, id) == { t \in ts : t.id # id }

\* the id setTimeout returns: one no pending timer has
NewTimerId(ts) == CHOOSE n \in 1..(Cardinality(ts) + 1) : \A t \in ts : t.id # n

\* Variant: the timer is scheduled without the delay.
RunDebounceEffectNoDelay(render) ==
    LET cleared == ClearTimeout(timers, delayDebounce)
        id == NewTimerId(cleared)
    IN /\ timers' = cleared \cup { [id |-> id, due |-> 0, render |-> render] }
       /\ delayDebounce' = id

\* The debounce effect: the cleanup of its previous run, then its body.  lines 44-49
RunDebounceEffect(render) ==
    LET cleared == ClearTimeout(timers, delayDebounce)
        id == NewTimerId(cleared)
    IN /\ timers' = cleared \cup { [id |-> id, due |-> DEBOUNCE_MS, render |-> render] }
       /\ delayDebounce' = id

\* history of a step that sets the filters; a burst is a run of changes of
\* the filters, each less than DEBOUNCE_MS after the one before
Touch(kind, ran) ==
    /\ lastChange' = kind
    /\ effectRan' = ran
    /\ elapsed' = 0
    /\ debounced' = << >>
    /\ burst' = (ran /\ kind # "mount" /\ lastChange # "mount" /\ effectRan
                    /\ elapsed < DEBOUNCE_MS)

----------------------------------------------------------------------------
\* Requests

\* A request: what was sent, and the allMerchants its continuation will read.
Request(kind, params, am) == [kind |-> kind, params |-> params, allMerchants |-> am]

\* history of a step that calls api.get without the user having asked
CountFetch ==
    /\ autoFetches' = IF autoFetches < 0 THEN autoFetches ELSE autoFetches + 1
    /\ UNCHANGED <<settled, failedSince>>

\* history of a step the user takes
UserActs ==
    /\ autoFetches' = -1
    /\ failedSince' = FALSE
    /\ UNCHANGED settled

\* history of a step in which a request settles
Settles(failed) ==
    /\ settled' = TRUE
    /\ failedSince' = (failedSince \/ failed)
    /\ UNCHANGED autoFetches

\* loadAllPerks up to its await, run by a function of the given render.  lines 54-63
\* A state setter of a component that is no longer mounted does nothing.
LoadAllPerks(render) ==
    /\ Cardinality({ i \in DOMAIN inflight : inflight[i].kind = "filtered" }) < MaxLoadsInFlight
    /\ IF phase = "mounted"
       THEN error' = "" /\ loading' = TRUE
       ELSE UNCHANGED <<error, loading>>
    /\ inflight' = Append(inflight,
           Request("filtered", Params(render.searchQuery, render.merchantFilter),
                   render.allMerchants))

----------------------------------------------------------------------------
\* Actions

Init ==
    /\ phase = "init"
    /\ perks = << >>
    /\ allMerchants = << >>
    /\ uniqueMerchants = << >>
    /\ searchQuery = EmptyStr
    /\ merchantFilter = EmptyStr
    /\ loading = TRUE
    /\ error = ""
    /\ timers = {}
    /\ delayDebounce = 0
    /\ inflight = << >>
    /\ last = [op |-> "init", res |-> << >>, fetched |-> FALSE]
    /\ lastChange = "mount"
    /\ effectRan = FALSE
    /\ elapsed = 0
    /\ debounced = << >>
    /\ burst = FALSE
    /\ autoFetches = 0
    /\ settled = FALSE
    /\ failedSince = FALSE

\* First commit: both effects run, in order.                  lines 17-39, 44-49
Mount ==
    /\ phase = "init"
    /\ phase' = "mounted"
    /\ inflight' = Append(inflight,
           Request("initial", NoParams, allMerchants))
    /\ RunDebounceEffect(Render(searchQuery, merchantFilter, allMerchants))
    /\ Touch("mount", TRUE)
    /\ UNCHANGED view
    /\ CountFetch
    /\ last' = Step("mount", << >>)

\* onChange of the search box: setSearchQuery(e.target.value)     line 112
SetSearchQuery(v) ==
    /\ phase = "mounted"
    /\ v # searchQuery
    /\ searchQuery' = v
    /\ RunDebounceEffect(Render(v, merchantFilter, allMerchants))
    /\ Touch("edit", TRUE)
    /\ UserActs
    /\ UNCHANGED <<phase, perks, allMerchants, uniqueMerchants, merchantFilter,
                   loading, error, inflight>>
    /\ last' = Step("setSearchQuery", << >>)

\* Variant: merchantFilter is no dependency of the debounce effect, so a
\* pending timer stays as it is when the merchant changes.
SetMerchantFilterKeepsTimer(v) ==
    /\ phase = "mounted"
    /\ v \in {EmptyStr} \cup Range(uniqueMerchants)
    /\ v # merchantFilter
    /\ merchantFilter' = v
    /\ Touch("edit", FALSE)
    /\ UserActs
    /\ UNCHANGED <<phase, perks, allMerchants, uniqueMerchants, searchQuery,
                   loading, error, inflight, timers, delayDebounce>>
    /\ last' = Step("setMerchantFilter", << >>)

\* onChange of the select: setMerchantFilter(e.target.value)  lines 122-133
SetMerchantFilter(v) ==
    /\ phase = "mounted"
    /\ v \in {EmptyStr} \cup Range(uniqueMerchants)
    /\ v # merchantFilter
    /\ merchantFilter' = v
    /\ RunDebounceEffect(Render(searchQuery, v, allMerchants))
    /\ Touch("edit", TRUE)
    /\ UserActs
    /\ UNCHANGED <<phase, perks, allMerchants, uniqueMerchants, searchQuery,
                   loading, error, inflight>>
    /\ last' = Step("setMerchantFilter", << >>)

\* Variant: Search Now only restarts the debounce timer.
HandleSearchDebounced ==
    /\ phase = "mounted"
    /\ RunDebounceEffect(Render(searchQuery, merchantFilter, allMerchants))
    /\ UserActs
    /\ UNCHANGED <<phase, view, inflight, since>>
    /\ last' = Step("handleSearch", << >>)

\* onSubmit of the form                                        lines 75-78
HandleSearch ==
    /\ phase = "mounted"
    /\ LoadAllPerks(Render(searchQuery, merchantFilter, allMerchants))
    /\ UserActs
    /\ UNCHANGED <<phase, perks, allMerchants, uniqueMerchants, searchQuery,
                   merchantFilter, timers, delayDebounce, since>>
    /\ last' = Step("handleSearch", << >>)

\* Variant: Reset clears the filters and leaves the dropdown as it is.
HandleResetKeepsDropdown ==
    /\ phase = "mounted"
    /\ searchQuery' = EmptyStr
    /\ merchantFilter' = EmptyStr
    /\ LET changed == <<searchQuery, merchantFilter>> # <<EmptyStr, EmptyStr>>
       IN /\ IF changed
             THEN RunDebounceEffect(Render(EmptyStr, EmptyStr, allMerchants))
             ELSE UNCHANGED <<timers, delayDebounce>>
          /\ Touch("reset", changed)
    /\ UserActs
    /\ UNCHANGED <<phase, perks, allMerchants, uniqueMerchants, loading, error, inflight>>
    /\ last' = Step("handleReset", << >>)

\* Variant: Reset also calls loadAllPerks() itself.
HandleResetFetches ==
    /\ phase = "mounted"
    /\ searchQuery' = EmptyStr
    /\ merchantFilter' = EmptyStr
    /\ uniqueMerchants' = allMerchants
    /\ LET changed == <<searchQuery, merchantFilter>> # <<EmptyStr, EmptyStr>>
       IN /\ IF changed
             THEN RunDebounceEffect(Render(EmptyStr, EmptyStr, allMerchants))
             ELSE UNCHANGED <<timers, delayDebounce>>
          /\ Touch("reset", changed)
    /\ LoadAllPerks(Render(searchQuery, merchantFilter, allMerchants))
    /\ UserActs
    /\ UNCHANGED <<phase, perks, allMerchants>>
    /\ last' = Step("handleReset", << >>)

\* onClick of Reset Filters; the effect runs again only if a dependency
\* changed.                                                    lines 80-84, 49
HandleReset ==
    /\ phase = "mounted"
    /\ searchQuery' = EmptyStr
    /\ merchantFilter' = EmptyStr
    /\ uniqueMerchants' = allMerchants
    /\ LET changed == <<searchQuery, merchantFilter>> # <<EmptyStr, EmptyStr>>
       IN /\ IF changed
             THEN RunDebounceEffect(Render(EmptyStr, EmptyStr, allMerchants))
             ELSE UNCHANGED <<timers, delayDebounce>>
          /\ Touch("reset", changed)
    /\ UserActs
    /\ UNCHANGED <<phase, perks, allMerchants, loading, error, inflight>>
    /\ last' = Step("handleReset", << >>)

\* The callback of a due timer: loadAllPerks() of the render that
\* scheduled it.                                               lines 45-47
TimerFire(t) ==
    /\ t \in timers
    /\ t.due = 0
    /\ timers' = timers \ {t}
    /\ LoadAllPerks(t.render)
    /\ debounced' = Append(debounced,
           [at |-> elapsed, params |-> Params(t.render.searchQuery, t.render.merchantFilter)])
    /\ UNCHANGED <<phase, perks, allMerchants, uniqueMerchants, searchQuery,
                   merchantFilter, delayDebounce, lastChange, effectRan, elapsed,
                   burst>>
    /\ CountFetch
    /\ last' = Step("timerFire", << >>)

\* Time passes, up to the moment the next timer is due.
Tick ==
    /\ \A t \in timers : t.due > 0
    /\ LET d == CHOOSE x \in {TickMs} \cup { t.due : t \in timers } :
                    \A y \in {TickMs} \cup { t.due : t \in timers } : x <= y
       IN /\ timers' = { [t EXCEPT !.due = @ - d] : t \in timers }
          /\ elapsed' = Min(elapsed + d, ElapsedCap)
    /\ UNCHANGED <<phase, view, delayDebounce, inflight, last, lastChange, effectRan,
                   debounced, burst, autoFetches, settled, failedSince>>

\* Variant: the response of the initial request is dropped when a newer request
\* is still in flight.
InitialLoadSuccessDropsStale(i, res) ==
    /\ phase = "mounted"
    /\ i \in DOMAIN inflight
    /\ inflight[i].kind = "initial"
    /\ inflight' = RemoveAt(inflight, i)
    /\ perks' = IF i < Len(inflight) THEN perks ELSE res
    /\ allMerchants' = MerchantsOf(res)
    /\ uniqueMerchants' = MerchantsOf(res)
    /\ loading' = FALSE
    /\ UNCHANGED <<searchQuery, merchantFilter, error>>
    /\ UNCHANGED <<phase, timers, delayDebounce, since>>
    /\ Settles(FALSE)
    /\ last' = Step("initialSuccess", res)

\* The initial request resolves.                               lines 20-29, 34
InitialLoadSuccess(i, res) ==
    /\ phase = "mounted"
    /\ i \in DOMAIN inflight
    /\ inflight[i].kind = "initial"
    /\ inflight' = RemoveAt(inflight, i)
    /\ perks' = res
    /\ allMerchants' = MerchantsOf(res)
    /\ uniqueMerchants' = MerchantsOf(res)
    /\ loading' = FALSE
    /\ UNCHANGED <<searchQuery, merchantFilter, error>>
    /\ UNCHANGED <<phase, timers, delayDebounce, since>>
    /\ Settles(FALSE)
    /\ last' = Step("initialSuccess", res)

\* Variant: the rejection of the initial request leaves the loading flag set.
InitialLoadFailureKeepsLoading(i, err) ==
    /\ phase = "mounted"
    /\ i \in DOMAIN inflight
    /\ inflight[i].kind = "initial"
    /\ inflight' = RemoveAt(inflight, i)
    /\ error' = ErrorMessage(err)
    /\ UNCHANGED <<perks, allMerchants, uniqueMerchants, searchQuery, merchantFilter,
                   loading>>
    /\ UNCHANGED <<phase, timers, delayDebounce, since>>
    /\ Settles(TRUE)
    /\ last' = Step("initialFailure", err)

\* The initial request rejects.                                lines 30-35
InitialLoadFailure(i, err) ==
    /\ phase = "mounted"
    /\ i \in DOMAIN inflight
    /\ inflight[i].kind = "initial"
    /\ inflight' = RemoveAt(inflight, i)
    /\ error' = ErrorMessage(err)
    /\ loading' = FALSE
    /\ UNCHANGED <<perks, allMerchants, uniqueMerchants, searchQuery, merchantFilter>>
    /\ UNCHANGED <<phase, timers, delayDebounce, since>>
    /\ Settles(TRUE)
    /\ last' = Step("initialFailure", err)

\* Variant: the full merchant list is derived again from the filtered result.
LoadAllPerksSuccessRederives(i, res) ==
    /\ phase = "mounted"
    /\ i \in DOMAIN inflight
    /\ inflight[i].kind = "filtered"
    /\ inflight' = RemoveAt(inflight, i)
    /\ perks' = res
    /\ allMerchants' = MerchantsOf(res)
    /\ uniqueMerchants' = MerchantsOf(res)
    /\ loading' = FALSE
    /\ UNCHANGED <<searchQuery, merchantFilter, error>>
    /\ UNCHANGED <<phase, timers, delayDebounce, since>>
    /\ Settles(FALSE)
    /\ last' = Step("loadSuccess", res)

\* A request of loadAllPerks resolves; allMerchants is the one of the
\* render whose loadAllPerks issued it.                        lines 64-66, 71
LoadAllPerksSuccess(i, res) ==
    /\ phase = "mounted"
    /\ i \in DOMAIN inflight
    /\ inflight[i].kind = "filtered"
    /\ inflight' = RemoveAt(inflight, i)
    /\ perks' = res
    /\ uniqueMerchants' = inflight[i].allMerchants
    /\ loading' = FALSE
    /\ UNCHANGED <<allMerchants, searchQuery, merchantFilter, error>>
    /\ UNCHANGED <<phase, timers, delayDebounce, since>>
    /\ Settles(FALSE)
    /\ last' = Step("loadSuccess", res)

\* Variant: a rejected request of loadAllPerks clears the displayed perks.
LoadAllPerksFailureClearsPerks(i, err) ==
    /\ phase = "mounted"
    /\ i \in DOMAIN inflight
    /\ inflight[i].kind = "filtered"
    /\ inflight' = RemoveAt(inflight, i)
    /\ error' = ErrorMessage(err)
    /\ loading' = FALSE
    /\ perks' = << >>
    /\ UNCHANGED <<allMerchants, uniqueMerchants, searchQuery, merchantFilter>>
    /\ UNCHANGED <<phase, timers, delayDebounce, since>>
    /\ Settles(TRUE)
    /\ last' = Step("loadFailure", err)

\* Variant: a rejected request of loadAllPerks is issued again.
LoadAllPerksFailureRetries(i, err) ==
    /\ phase = "mounted"
    /\ i \in DOMAIN inflight
    /\ inflight[i].kind = "filtered"
    /\ inflight' = Append(RemoveAt(inflight, i), inflight[i])
    /\ error' = ErrorMessage(err)
    /\ loading' = TRUE
    /\ UNCHANGED <<perks, allMerchants, uniqueMerchants, searchQuery, merchantFilter>>
    /\ UNCHANGED <<phase, timers, delayDebounce, since>>
    /\ Settles(TRUE)
    /\ last' = Step("loadFailure", err)

\* A request of loadAllPerks rejects.                          lines 67-72
LoadAllPerksFailure(i, err) ==
    /\ phase = "mounted"
    /\ i \in DOMAIN inflight
    /\ inflight[i].kind = "filtered"
    /\ inflight' = RemoveAt(inflight, i)
    /\ error' = ErrorMessage(err)
    /\ loading' = FALSE
    /\ UNCHANGED <<perks, allMerchants, uniqueMerchants, searchQuery, merchantFilter>>
    /\ UNCHANGED <<phase, timers, delayDebounce, since>>
    /\ Settles(TRUE)
    /\ last' = Step("loadFailure", err)

\* A request settles after the component was removed: the state setters its
\* continuation calls do nothing.                              lines 20-35, 64-72
SettleUnmounted(i) ==
    /\ phase = "unmounted"
    /\ i \in DOMAIN inflight
    /\ inflight' = RemoveAt(inflight, i)
    /\ UNCHANGED <<phase, view, timers, delayDebounce, since, autoFetches, settled,
                   failedSince>>
    /\ last' = Step("settleUnmounted", << >>)

\* Variant: removing the component leaves the pending timer alone.
UnmountKeepsTimer ==
    /\ phase = "mounted"
    /\ phase' = "unmounted"
    /\ UNCHANGED <<view, timers, delayDebounce, inflight, since, autoFetches, settled,
                   failedSince>>
    /\ last' = Step("unmount", << >>)

\* The component is removed: the cleanup of the debounce effect runs.  line 48
Unmount ==
    /\ phase = "mounted"
    /\ phase' = "unmounted"
    /\ timers' = ClearTimeout(timers, delayDebounce)
    /\ UNCHANGED <<view, delayDebounce, inflight, since, autoFetches, settled,
                   failedSince>>
    /\ last' = Step("unmount", << >>)

Next ==
    \/ Mount
    \/ \E v \in SearchInputs : SetSearchQuery(v)
    \/ \E v \in {EmptyStr} \cup Range(uniqueMerchants) : SetMerchantFilter(v)
    \/ HandleSearch
    \/ HandleReset
    \/ \E t \in timers : TimerFire(t)
    \/ Tick
    \/ \E i \in DOMAIN inflight, res \in Responses : InitialLoadSuccess(i, res)
    \/ \E i \in DOMAIN inflight, err \in ErrorResponses : InitialLoadFailure(i, err)
    \/ \E i \in DOMAIN inflight, res \in Responses : LoadAllPerksSuccess(i, res)
    \/ \E i \in DOMAIN inflight, err \in ErrorResponses : LoadAllPerksFailure(i, err)
    \/ \E i \in DOMAIN inflight : SettleUnmounted(i)
    \/ Unmount

Spec == Init /\ [][Next]_vars

----------------------------------------------------------------------------
\* Properties

Mounted == phase = "mounted"
Newest == inflight[Len(inflight)]
Completed == last.op \in {"initialSuccess", "initialFailure", "loadSuccess", "loadFailure"}

\* t is s without its leading and trailing whitespace
IsTrimOf(t, s) ==
    \E i \in 0..Len(s) : \E j \in i..Len(s) :
        /\ t = SubSeq(s, i + 1, j)
        /\ \A k \in 1..i : IsSpace(s[k])
        /\ \A k \in (j + 1)..Len(s) : IsSpace(s[k])
        /\ t # << >> => ~IsSpace(t[1]) /\ ~IsSpace(t[Len(t)])

\* the parameter key is sent with the trimmed value, and not at all if that is empty
SentTrimmed(params, key, raw) ==
    \/ key \notin DOMAIN params /\ IsTrimOf(EmptyStr, raw)
    \/ key \in DOMAIN params /\ params[key] # EmptyStr /\ IsTrimOf(params[key], raw)

NoDuplicates(s) == \A i, j \in DOMAIN s : i # j => s[i] # s[j]

\* the merchant names of a perk list that are present and not blank
NamedMerchants(res) ==
    { res[i].merchant : i \in { k \in DOMAIN res :
          res[k].hasMerchant /\ \E c \in DOMAIN res[k].merchant : ~IsSpace(res[k].merchant[c]) } }

\* C1: once the initial load has succeeded (allMerchants is its non-empty
\* merchant list), the dropdown options after every completed fetch are that
\* list, never the empty list or a part of it.
C1_DropdownIsFullSet ==
    (Mounted /\ allMerchants # << >> /\ last.op \in {"loadSuccess", "loadFailure"})
        => uniqueMerchants = allMerchants

\* C2: as long as the user has edited no filter and clicked neither Search Now
\* nor Reset, mounting has issued exactly one fetch and no second one follows.
C2_SingleFetchOnMount ==
    (phase # "init" /\ autoFetches >= 0) => autoFetches = 1

\* C3: after a change of searchQuery or merchantFilter no timer starts a fetch
\* before 500 ms without a further change have passed; the burst of changes
\* ends in exactly one debounced fetch, started 500 ms after its last change.
C3_DebouncedOnce ==
    (lastChange # "mount" /\ effectRan) =>
        /\ elapsed < DEBOUNCE_MS => debounced = << >>
        /\ Len(debounced) <= 1
        /\ \A k \in DOMAIN debounced : debounced[k].at = DEBOUNCE_MS
        /\ (Mounted /\ elapsed > DEBOUNCE_MS) => Len(debounced) = 1

C3_Witness ==
    /\ Mounted /\ lastChange = "edit" /\ burst
    /\ Len(debounced) = 1
    /\ elapsed > DEBOUNCE_MS

\* C4: at most one debounce timer is pending, and it is the one the latest run
\* of the effect scheduled for the current filter values: every earlier timer
\* was cancelled and cannot fire.
C4_OnePendingTimer ==
    /\ Cardinality(timers) <= 1
    /\ \A t \in timers :
          /\ t.id = delayDebounce
          /\ t.render.searchQuery = searchQuery
          /\ t.render.merchantFilter = merchantFilter
          /\ effectRan => t.due + elapsed = DEBOUNCE_MS

C4_Witness ==
    /\ burst /\ last.op \in {"setSearchQuery", "setMerchantFilter"}
    /\ Cardinality(timers) = 1
    /\ \A t \in timers : t.due = DEBOUNCE_MS

\* C5: Search Now starts a fetch in the same step, whether or not a debounce
\* timer is pending, with the parameters of the searchQuery and merchantFilter
\* current at the submission.
C5_SearchNowFetchesAtOnce ==
    last.op = "handleSearch" =>
        /\ last.fetched
        /\ inflight # << >>
        /\ Newest.kind = "filtered"
        /\ Newest.params = Params(searchQuery, merchantFilter)

C5_Witness ==
    /\ last.op = "handleSearch"
    /\ timers # {} /\ elapsed < DEBOUNCE_MS /\ lastChange = "edit"
    /\ "search" \in DOMAIN Newest.params

\* C6: when the initial fetch succeeds, perks is the returned list, and
\* allMerchants and the dropdown both hold, without duplicates, exactly the
\* merchant names of the returned perks that are present and not blank.
C6_InitialLoadStores ==
    (Mounted /\ last.op = "initialSuccess") =>
        /\ perks = last.res
        /\ allMerchants = uniqueMerchants
        /\ NoDuplicates(allMerchants)
        /\ Range(allMerchants) = NamedMerchants(last.res)

C6_Witness ==
    /\ Mounted /\ last.op = "initialSuccess"
    /\ last.res = <<P1, P4, P3, P5, P6, P7>>
    /\ allMerchants = << <<"X">>, <<" ", "Z">> >>

\* C7: allMerchants changes only in the step in which the initial load
\* succeeds; no filtered fetch, Search Now, Reset or edit changes it.
C7_AllMerchantsFrame ==
    [][allMerchants' # allMerchants => last'.op = "initialSuccess"]_vars

C7_Witness ==
    /\ Mounted /\ last.op = "loadSuccess"
    /\ allMerchants # << >>
    /\ MerchantsOf(perks) # allMerchants

\* C8: a fetch started by Search Now or by the debounce timer sends search and
\* merchant as the trimmed searchQuery and merchantFilter, and leaves out
\* exactly the parameters whose trimmed value is empty.
C8_TrimmedParams ==
    (last.op \in {"handleSearch", "timerFire"} /\ inflight # << >>) =>
        /\ Newest.kind = "filtered"
        /\ DOMAIN Newest.params \subseteq {"search", "merchant"}
        /\ SentTrimmed(Newest.params, "search", searchQuery)
        /\ SentTrimmed(Newest.params, "merchant", merchantFilter)

C8_Witness ==
    /\ last.op = "timerFire" /\ inflight # << >>
    /\ searchQuery = <<" ">> /\ merchantFilter = <<" ", "Z">>
    /\ Newest.params = [merchant |-> <<"Z">>]

\* C9: right after Reset Filters, searchQuery and merchantFilter are empty and
\* the dropdown options are allMerchants.
C9_ResetRestores ==
    last.op = "handleReset" =>
        /\ searchQuery = EmptyStr
        /\ merchantFilter = EmptyStr
        /\ uniqueMerchants = allMerchants

C9_Witness ==
    /\ last.op = "handleReset" /\ effectRan /\ lastChange = "reset"
    /\ allMerchants # << >> /\ uniqueMerchants = allMerchants
    /\ elapsed = 0

\* C10 as stated: Reset starts no fetch itself, and 500 ms after any Reset that
\* no filter change follows, a timer has started an unfiltered fetch.
C10_ResetAlwaysRefetches ==
    /\ last.op = "handleReset" => ~last.fetched
    /\ (Mounted /\ lastChange = "reset" /\ elapsed > DEBOUNCE_MS) =>
          \E k \in DOMAIN debounced :
              debounced[k] = [at |-> DEBOUNCE_MS, params |-> NoParams]

\* C10 as amended: Reset starts no fetch itself; if it changed searchQuery or
\* merchantFilter and no filter change follows while the view stays mounted,
\* the one fetch a timer starts is unfiltered and starts 500 ms after the Reset.
C10_ChangingResetRefetches ==
    /\ last.op = "handleReset" => ~last.fetched
    /\ (lastChange = "reset" /\ effectRan) =>
          /\ elapsed < DEBOUNCE_MS => debounced = << >>
          /\ (Mounted /\ elapsed > DEBOUNCE_MS) =>
                debounced = << [at |-> DEBOUNCE_MS, params |-> NoParams] >>

C10_Witness ==
    /\ Mounted /\ lastChange = "reset" /\ effectRan
    /\ elapsed > DEBOUNCE_MS
    /\ debounced # << >>

Failed == last.op \in {"initialFailure", "loadFailure"}
Succeeded == last.op \in {"initialSuccess", "loadSuccess"}

\* C11: right after any fetch fails, the error message is the message of the
\* response if it carries a non-empty one and 'Failed to load perks' if not,
\* and loading is false.
C11_FailureSetsError ==
    Failed =>
        /\ loading = FALSE
        /\ (last.res.hasMessage /\ last.res.message # "") => error = last.res.message
        /\ ~last.res.hasMessage => error = "Failed to load perks"
        /\ (last.res.hasMessage /\ last.res.message = "") => error = "Failed to load perks"

C11_Witness ==
    /\ last.op = "loadFailure"
    /\ last.res.hasMessage
    /\ error = "Server error"
    /\ \E i \in DOMAIN inflight : inflight[i].kind = "initial"

Started == Len(inflight') > Len(inflight)

Scheduled == \E t \in timers' : t \notin timers /\ t.due = DEBOUNCE_MS

\* the step is the rejection of a request (time passing leaves last and
\* inflight as they are)
FailureStep ==
    /\ last'.op \in {"initialFailure", "loadFailure"}
    /\ \/ inflight' # inflight
       \/ last.op \notin {"initialFailure", "loadFailure"}
       \/ last'.res # last.res

\* C12 as stated: once a fetch has failed, no fetch is started until the user
\* has edited a filter, clicked Search Now or clicked Reset.
C12_NoFetchUntilUserActs == failedSince => ~last.fetched

\* C12: a failing fetch is not retried: the step in which it fails removes
\* that one request, starts none and schedules no timer; and as long as the
\* user does nothing after a failure no timer is scheduled and a fetch is
\* started only by the firing of a debounce timer, which therefore was already
\* pending when the fetch failed (scheduled by the mount or by an earlier
\* filter change).
C12_NoRetry ==
    [][ /\ FailureStep =>
            /\ Len(inflight') = Len(inflight) - 1
            /\ timers' = timers
        /\ (failedSince /\ failedSince') =>
            /\ ~Scheduled
            /\ Started => (last'.op = "timerFire" /\ timers' # timers) ]_vars

\* a fetch has failed, nothing is pending and nothing is in flight: the view
\* stays as it is until the user acts
C12_Witness ==
    /\ Mounted
    /\ Failed
    /\ failedSince
    /\ timers = {}
    /\ inflight = << >>
    /\ debounced # << >>

\* C13 as stated: while the view is mounted, loading is false only if no
\* fetch is in flight.
C13_IdleOnlyWhenNothingInFlight == (Mounted /\ ~loading) => inflight = << >>

\* C13: while the view is mounted, loading is true right after every start of
\* a fetch and false right after every success or failure of one, and it is
\* true only while some fetch is in flight; when fetches overlap, the first
\* one to settle switches it off although another is still in flight.
C13_LoadingFollowsLastEvent ==
    Mounted =>
        /\ last.fetched => loading
        /\ (Succeeded \/ Failed) => ~loading
        /\ loading => inflight # << >>

\* one of two overlapping fetches has settled, the other is still in flight
C13_Witness ==
    /\ Mounted
    /\ Succeeded \/ Failed
    /\ ~loading
    /\ inflight # << >>

\* C14: every response that arrives while the view is mounted is applied:
\* right after a fetch succeeds the displayed perks are its result, whether or
\* not it was the fetch issued last; of two overlapping fetches the one that
\* resolves last therefore decides what is displayed.
C14_LastResolvedWins == (Mounted /\ Succeeded) => perks = last.res

\* the initial fetch was issued first and resolved last: the debounced fetch
\* of the mount, issued after it, has already succeeded, and the initial
\* result is displayed
C14_Witness ==
    /\ Mounted
    /\ last.op = "initialSuccess"
    /\ inflight = << >>
    /\ debounced # << >>
    /\ lastChange = "mount"
    /\ autoFetches = 2
    /\ error = ""
    /\ perks = last.res
    /\ perks # << >>

InitialPending == \E i \in DOMAIN inflight : inflight[i].kind = "initial"

\* C15 as stated: 'No perks found.' is not shown between the mount and the
\* completion of the initial fetch.
C15_HiddenUntilInitialLoadCompletes ==
    (Mounted /\ InitialPending) => ~EmptyState(loading, perks)

\* C15: 'No perks found.' is shown exactly when loading is false and the
\* displayed list is empty; it is not shown between the mount and the first
\* completion of any fetch, and it is shown right after a fetch that returned
\* zero perks has succeeded.
C15_EmptyStateShown ==
    Mounted =>
        /\ EmptyState(loading, perks) <=> (loading = FALSE /\ perks = << >>)
        /\ ~settled => ~EmptyState(loading, perks)
        /\ (Succeeded /\ last.res = << >>) => EmptyState(loading, perks)

\* a fetch has returned zero perks while the initial fetch is still pending:
\* the message is shown
C15_Witness ==
    /\ Mounted
    /\ last.op = "loadSuccess"
    /\ last.res = << >>
    /\ InitialPending
    /\ EmptyState(loading, perks)

\* C16: for the displayed list of N perks the grid has exactly N cards, in the
\* order of the list, the card of a perk carries the badge 'P% OFF' exactly
\* when its discountPercent P is greater than 0, and the count text is
\* 'Showing 1 perk' for N = 1 and 'Showing N perks' for every other N,
\* including 0.
C16_CardsBadgesCount ==
    Mounted =>
        LET N == Len(perks)
            grid == Cards(perks)
        IN  /\ Len(grid) = N
            /\ \A i \in 1..N :
                  /\ grid[i].key = perks[i]._id
                  /\ perks[i].discountPercent > 0 =>
                        grid[i].badge = <<perks[i].discountPercent, "% OFF">>
                  /\ ~(perks[i].discountPercent > 0) => Len(grid[i].badge) = 0
            /\ CountText(perks).n = N
            /\ N = 1 => CountText(perks).noun = <<"p", "e", "r", "k">>
            /\ N # 1 => CountText(perks).noun = <<"p", "e", "r", "k", "s">>

\* a list with discounted and undiscounted perks is displayed
C16_Witness ==
    /\ Mounted
    /\ Len(perks) > 1
    /\ \E i \in DOMAIN perks : Len(Cards(perks)[i].badge) = 0
    /\ \E i \in DOMAIN perks : Cards(perks)[i].badge = <<5, "% OFF">>
    /\ CountText(perks).noun = <<"p", "e", "r", "k", "s">>

\* C17: while the view is mounted, right after a fetch has succeeded the
\* error message is empty, in whatever order overlapping fetches complete.
C17_NoErrorWithFreshResults == (Mounted /\ Succeeded) => error = ""

\* the view takes every change of the search text, every choice of another
\* dropdown option, Reset, and Search Now (as far as the bound on the requests
\* in flight lets the model follow it)
Interactive ==
    /\ \A v \in SearchInputs \ {searchQuery} : ENABLED SetSearchQuery(v)
    /\ \A v \in ({EmptyStr} \cup Range(uniqueMerchants)) \ {merchantFilter} :
          ENABLED SetMerchantFilter(v)
    /\ ENABLED HandleReset
    /\ Cardinality({ i \in DOMAIN inflight : inflight[i].kind = "filtered" })
           < MaxLoadsInFlight => ENABLED HandleSearch

\* C18: the step in which a fetch fails leaves the displayed perks,
\* allMerchants, the dropdown options, searchQuery and merchantFilter as they
\* were and the view mounted; after it the user can still change the search
\* text, choose a merchant, click Search Now and click Reset.
C18_FailureFrame ==
    /\ [][ FailureStep =>
              /\ UNCHANGED <<perks, allMerchants, uniqueMerchants, searchQuery,
                             merchantFilter>>
              /\ phase' = "mounted" ]_vars
    /\ []((Mounted /\ Failed) => Interactive)

\* a filtered fetch has failed while perks were displayed and a filter was set
C18_Witness ==
    /\ Mounted
    /\ last.op = "loadFailure"
    /\ perks # << >>
    /\ uniqueMerchants # << >>
    /\ searchQuery # EmptyStr

\* C19: a pending debounce timer always belongs to the render of the current
\* searchQuery and merchantFilter, whatever edits and Resets came before, so
\* the fetch a firing timer starts sends the trimmed values the view holds at
\* that moment.
C19_TimerSendsCurrentFilters ==
    /\ \A t \in timers :
          /\ t.render.searchQuery = searchQuery
          /\ t.render.merchantFilter = merchantFilter
    /\ last.op = "timerFire" =>
          /\ debounced # << >>
          /\ debounced[Len(debounced)].params = Params(searchQuery, merchantFilter)
          /\ inflight # << >>
          /\ Newest.params = Params(searchQuery, merchantFilter)

\* the timer of the last of several quick filter changes has fired
C19_Witness ==
    /\ last.op = "timerFire"
    /\ burst
    /\ searchQuery = <<" ", "a", " ">>
    /\ merchantFilter # EmptyStr
    /\ Newest.params = [search |-> <<"a">>, merchant |-> Trim(merchantFilter)]

\* C20: once the view is unmounted no debounce timer is pending and no fetch
\* is started any more: the last thing that happened is the unmount or the
\* settling of a request issued before it, also when filter changes had
\* scheduled a timer that was still pending at the unmount.
C20_NoFetchAfterUnmount ==
    phase = "unmounted" =>
        /\ timers = {}
        /\ last.op \in {"unmount", "settleUnmounted"}
        /\ ~last.fetched

\* the view was unmounted within 500ms of a filter change, the 500ms have
\* passed and no debounced fetch has been made
C20_Witness ==
    /\ phase = "unmounted"
    /\ lastChange = "edit"
    /\ effectRan
    /\ elapsed > DEBOUNCE_MS
    /\ debounced = << >>

====
